---- MODULE Spec2Model ----
(***************************************************************************)
(* Model of kaggle_ollama_setup.py: the start of "ollama serve", the       *)
(* readiness poll, the one-shot setup steps and the keep-alive loop that   *)
(* probes http://localhost:11434/api/version and respawns the server when  *)
(* the probe block raises and the process behind the handle has exited.    *)
(*                                                                         *)
(* The supervised processes and the endpoint are the environment: a        *)
(* process may exit at any moment, it may write to its stdout/stderr pipe  *)
(* at any moment, and each probe is answered by whatever listens on the    *)
(* port at that moment.                                                    *)
(***************************************************************************)
EXTENDS Integers, FiniteSets, Sequences, TLC

\* ------------------------------------------------------------------ bounds
\* number of process exits the environment produces in one run
MaxExits == 2
\* capacity of the stdout/stderr pipe of a supervised process, in writes
PipeCap == 2

\* ------------------------------------------------------- program constants
\* for i in range(45)
ReadyAttempts == 45
\* urlopen(req, timeout=2) in the readiness poll
ReadyTimeout == 2
\* time.sleep(1) after a failed readiness attempt
ReadySleep == 1
\* if (i + 1) % 10 == 0
ProgressEvery == 10
\* time.sleep(10) after a respawn
SettleInterval == 10
PollIntervalEarly == SettleInterval
\* time.sleep(300) at the end of every cycle
PollInterval == 300

\* ------------------------------------------------------------ environment
\* what a probe of /api/version can come back with
Responses == {"s200", "s204", "s500", "timeout", "connerr"}
\* statuses urlopen returns as a response object (any 2xx)
Success2xx == {"s200", "s204"}
\* what ngrok.get_tunnels() can do: a tunnel, no tunnel, or an exception
TunnelOutcomes == {"url", "empty", "raise"}
\* what one readiness probe can come back with
ReadyOutcomes == {"ok200", "badjson200", "other2xx", "raise"}

VARIABLES
    pc,              \* position of the script
    i,               \* readiness attempts completed
    server_ready,    \* server_ready flag of the readiness poll
    ollama_process,  \* pid behind the handle variable, 0 before the first spawn
    nspawned,        \* processes spawned so far; pids are 1..nspawned
    alive,           \* pids of the spawned processes that have not exited
    exits,           \* process exits so far (environment)
    restarts,        \* spawns done by the keep-alive loop that succeeded
    pipeFill,        \* unread writes in the pipe of the current handle
    stalled,         \* the current process is blocked in a write on a full pipe
    resp,            \* answer to the probe of the current cycle
    exc,             \* exception raised inside the try block of the cycle
    report,          \* last status line printed by the keep-alive loop
    pollResult,      \* result of ollama_process.poll() in the current cycle
    spawnCalls,      \* Popen calls made by the current cycle
    exitedAtTry,     \* the handle's process had exited when the try block ran
    cycleHandle,     \* handle at the start of the current cycle
    fatal,           \* why the script ended, "none" while it runs
    slept,           \* time slept by the loop since its last probe
    sinceRestart,    \* time slept since the restart of the previous cycle, -1 if it made none
    restartGap,      \* at a restart: time slept since the restart of the previous cycle, else -1
    readyElapsed,    \* time spent in the readiness poll, cleared once the poll is over
    seen200,         \* some readiness probe was answered with status 200
    termRequested,   \* ollama_process.terminate() was called
    tunnelOpen       \* ngrok.connect returned a tunnel

vars == <<pc, i, server_ready, ollama_process, nspawned, alive, exits,
          restarts, pipeFill, stalled, resp, exc, report, pollResult,
          spawnCalls, exitedAtTry, cycleHandle, fatal,
          slept, sinceRestart, restartGap,
          readyElapsed, seen200, termRequested, tunnelOpen>>

procVars == <<ollama_process, nspawned, alive, restarts, pipeFill, stalled>>
cycleVars == <<resp, exc, report, pollResult, spawnCalls, exitedAtTry, cycleHandle>>
startVars == <<i, server_ready>>
loopTime == <<slept, sinceRestart, restartGap>>
readyHist == <<readyElapsed, seen200, termRequested, tunnelOpen>>

\* ------------------------------------------------------ pure parts of code
\* urlopen raises (HTTPError, URLError, timeout) unless the status is 2xx
UrlopenRaises(r) == r \notin Success2xx

\* the exception the try block of the keep-alive loop ends with, or "none"
TryException(r, t) ==
    IF UrlopenRaises(r) THEN r
    ELSE IF r = "s200" /\ t = "raise" THEN "tunnelerr"
    ELSE "none"

\* the line the try block prints when it does not raise
TryReport(r) == IF r = "s200" THEN "OK" ELSE "WARN"

\* a readiness probe answered with status 200, whatever its body
ReadyStatus200(o) == o \in {"ok200", "badjson200"}

ReadyBreaksOn2xx(o) == o \in {"ok200", "other2xx"}
\* the readiness poll sets server_ready and breaks: status 200 and a body
\* that json.loads and data.get accept
ReadyBreaks(o) == o = "ok200"

\* the progress line "Waiting for server... (n s)" is printed after attempt n
ProgressPrinted(n) == n % ProgressEvery = 0

\* ollama_process.poll() is not None
PollExited(h) == h \notin alive

ShouldRestartAlways(exited) == TRUE
ShouldRestartNever(exited) == FALSE
ShouldRestartLimited(exited) == exited /\ restarts < 1
\* the except branch respawns exactly when the exit check reports an exit
ShouldRestart(exited) == exited

\* ------------------------------------------------------------------- Init
Init ==
    /\ pc = "start"
    /\ i = 0
    /\ server_ready = FALSE
    /\ ollama_process = 0
    /\ nspawned = 0
    /\ alive = {}
    /\ exits = 0
    /\ restarts = 0
    /\ pipeFill = 0
    /\ stalled = FALSE
    /\ resp = "none"
    /\ exc = "none"
    /\ report = "none"
    /\ pollResult = "none"
    /\ spawnCalls = 0
    /\ exitedAtTry = FALSE
    /\ cycleHandle = 0
    /\ fatal = "none"
    /\ slept = 0
    /\ sinceRestart = -1
    /\ restartGap = -1
    /\ readyElapsed = 0
    /\ seen200 = FALSE
    /\ termRequested = FALSE
    /\ tunnelOpen = FALSE

\* ---------------------------------------------------------------- startup
\* ollama_process = subprocess.Popen(["ollama", "serve"], stdout=PIPE, stderr=PIPE)
StartServer ==
    /\ pc = "start"
    /\ \E ok \in BOOLEAN :
         IF ok
         THEN /\ nspawned' = nspawned + 1
              /\ ollama_process' = nspawned + 1
              /\ alive' = alive \cup {nspawned + 1}
              /\ pipeFill' = 0
              /\ stalled' = FALSE
              /\ pc' = "ready_poll"
              /\ fatal' = fatal
         ELSE /\ pc' = "crashed"
              /\ fatal' = "initial_spawn"
              /\ UNCHANGED <<nspawned, ollama_process, alive, pipeFill, stalled>>
    /\ UNCHANGED <<restarts, exits, startVars, cycleVars, loopTime, readyHist>>

\* one iteration of the readiness poll
ReadyProbe ==
    /\ pc = "ready_poll"
    /\ \E o \in ReadyOutcomes, d \in 0..ReadyTimeout :
         /\ seen200' = (seen200 \/ ReadyStatus200(o))
         /\ IF ReadyBreaks(o)
            THEN /\ server_ready' = TRUE
                 /\ i' = i
                 /\ readyElapsed' = readyElapsed + d
                 /\ pc' = "setup"
            ELSE /\ server_ready' = server_ready
                 /\ i' = i + 1
                 /\ readyElapsed' = readyElapsed + d + ReadySleep
                 /\ pc' = IF i + 1 = ReadyAttempts THEN "not_ready" ELSE "ready_poll"
    /\ UNCHANGED <<procVars, exits, cycleVars, fatal, loopTime, termRequested,
                   tunnelOpen>>

\* if not server_ready: terminate(), communicate(timeout=5), SystemExit
NotReady ==
    /\ pc = "not_ready"
    /\ ~server_ready
    /\ \E died \in BOOLEAN :
         /\ alive' = IF died THEN alive \ {ollama_process} ELSE alive
         /\ pipeFill' = IF died THEN 0 ELSE pipeFill
         /\ stalled' = IF died THEN FALSE ELSE stalled
    /\ termRequested' = TRUE
    /\ pc' = "exited"
    /\ fatal' = "not_ready"
    /\ UNCHANGED <<ollama_process, nspawned, restarts, exits, startVars, cycleVars,
                   loopTime, readyElapsed, seen200, tunnelOpen>>

\* steps 3 to 5: model pull, model test, pip install pyngrok, ngrok.connect
Setup ==
    /\ pc = "setup"
    /\ \E ok \in BOOLEAN :
         IF ok
         THEN /\ pc' = "probe"
              /\ fatal' = fatal
              /\ tunnelOpen' = TRUE
         ELSE /\ pc' = "exited"
              /\ fatal' = "setup"
              /\ tunnelOpen' = tunnelOpen
    /\ readyElapsed' = 0
    /\ UNCHANGED <<procVars, exits, startVars, cycleVars, loopTime, seen200,
                   termRequested>>

\* --------------------------------------------------------- keep-alive loop
\* the try block of one cycle: the probe and the status report
ProbeWith(r, t) ==
    /\ pc = "probe"
    /\ (r = "s200") <=> (t \in TunnelOutcomes)
    /\ resp' = r
    /\ exc' = TryException(r, t)
    /\ report' = IF TryException(r, t) = "none" THEN TryReport(r) ELSE report
    /\ pollResult' = "none"
    /\ spawnCalls' = 0
    /\ exitedAtTry' = PollExited(ollama_process)
    /\ cycleHandle' = ollama_process
    /\ pc' = IF TryException(r, t) = "none" THEN "sleep" ELSE "except"
    /\ slept' = 0
    /\ sinceRestart' = IF TryException(r, t) = "none" THEN -1 ELSE sinceRestart
    /\ restartGap' = -1
    /\ UNCHANGED <<procVars, exits, startVars, fatal, readyHist>>

Probe == \E r \in Responses, t \in TunnelOutcomes \cup {"notcalled"} : ProbeWith(r, t)

\* the except branch: print the error, poll the handle, respawn if it exited
Except ==
    /\ pc = "except"
    /\ report' = "ERROR"
    /\ pollResult' = IF PollExited(ollama_process) THEN "exited" ELSE "alive"
    /\ IF ShouldRestart(PollExited(ollama_process))
       THEN \E ok \in BOOLEAN :
              /\ spawnCalls' = spawnCalls + 1
              /\ IF ok
                 THEN /\ nspawned' = nspawned + 1
                      /\ ollama_process' = nspawned + 1
                      /\ alive' = alive \cup {nspawned + 1}
                      /\ restarts' = restarts + 1
                      /\ pipeFill' = 0
                      /\ stalled' = FALSE
                      /\ pc' = "settle"
                      /\ fatal' = fatal
                      /\ restartGap' = sinceRestart
                      /\ sinceRestart' = 0
                 ELSE /\ pc' = "crashed"
                      /\ fatal' = "restart_spawn"
                      /\ restartGap' = -1
                      /\ sinceRestart' = -1
                      /\ UNCHANGED procVars
       ELSE /\ pc' = "sleep"
            /\ restartGap' = -1
            /\ sinceRestart' = -1
            /\ UNCHANGED <<procVars, spawnCalls, fatal>>
    /\ UNCHANGED <<exits, startVars, resp, exc, exitedAtTry, cycleHandle, slept,
                   readyHist>>

\* time.sleep(10) after a respawn
Settle ==
    /\ pc = "settle"
    /\ pc' = "sleep"
    /\ slept' = slept + SettleInterval
    /\ sinceRestart' = sinceRestart + SettleInterval
    /\ UNCHANGED <<procVars, exits, startVars, cycleVars, fatal, restartGap,
                   readyHist>>

\* time.sleep(300), then the next cycle
Sleep ==
    /\ pc = "sleep"
    /\ pc' = "probe"
    /\ slept' = slept + PollInterval
    /\ sinceRestart' = IF sinceRestart >= 0 THEN sinceRestart + PollInterval ELSE -1
    /\ UNCHANGED <<procVars, exits, startVars, cycleVars, fatal, restartGap,
                   readyHist>>

\* ------------------------------------------------------------ environment
\* a supervised process exits
ProcExit ==
    /\ exits < MaxExits
    /\ \E p \in alive :
         /\ alive' = alive \ {p}
         /\ stalled' = IF p = ollama_process THEN FALSE ELSE stalled
    /\ exits' = exits + 1
    /\ UNCHANGED <<pc, ollama_process, nspawned, restarts, pipeFill,
                   startVars, cycleVars, fatal, loopTime, readyHist>>

\* the current process writes to its stdout/stderr pipe, which nothing reads
ServerWrite ==
    /\ ollama_process \in alive
    /\ ~stalled
    /\ IF pipeFill < PipeCap
       THEN /\ pipeFill' = pipeFill + 1
            /\ stalled' = stalled
       ELSE /\ pipeFill' = pipeFill
            /\ stalled' = TRUE
    /\ UNCHANGED <<pc, ollama_process, nspawned, alive, exits, restarts,
                   startVars, cycleVars, fatal, loopTime, readyHist>>

Next ==
    \/ StartServer
    \/ ReadyProbe
    \/ NotReady
    \/ Setup
    \/ Probe
    \/ Except
    \/ Settle
    \/ Sleep
    \/ ProcExit
    \/ ServerWrite

Spec == Init /\ [][Next]_vars

TypeOK ==
    /\ pc \in {"start", "ready_poll", "not_ready", "setup", "probe", "except",
               "settle", "sleep", "exited", "crashed"}
    /\ i \in 0..ReadyAttempts
    /\ server_ready \in BOOLEAN
    /\ ollama_process \in 0..nspawned
    /\ alive \subseteq 1..nspawned
    /\ exits \in 0..MaxExits
    /\ pipeFill \in 0..PipeCap
    /\ stalled \in BOOLEAN
    /\ resp \in Responses \cup {"none"}
    /\ report \in {"none", "OK", "WARN", "ERROR"}
    /\ pollResult \in {"none", "alive", "exited"}
    /\ spawnCalls \in 0..1

\* the loop runs on, and the endpoint answers 200 again and again
LiveSpec ==
    /\ Spec
    /\ WF_vars(Probe \/ Except \/ Settle \/ Sleep)
    /\ SF_vars(\E t \in TunnelOutcomes : ProbeWith("s200", t))

\* ------------------------------------------------------------- properties
\* the cycle has passed its try block and, if it raised, its except branch
CycleReported == resp # "none" /\ pc \in {"settle", "sleep", "crashed"}
\* the cycle was reported without the error line
Healthy == report \in {"OK", "WARN"}

\* C1: a cycle calls Popen only if its try block raised and its exit check
\* reported that the process behind the handle has exited; a failing probe
\* with a live process never restarts.
C1_RestartOnlyOnDeath ==
    /\ spawnCalls > 0 => (exc # "none" /\ pollResult = "exited")
    /\ pollResult = "alive" => (spawnCalls = 0 /\ ollama_process = cycleHandle)

\* C1 witness: HTTP 500 from a live process, cycle finished without a spawn
C1_Witness ==
    /\ pc = "sleep"
    /\ resp = "s500"
    /\ report = "ERROR"
    /\ pollResult = "alive"
    /\ spawnCalls = 0

\* C2: a spawn that raises inside the restart does not end the loop.
C2_SpawnFailureNotFatal ==
    fatal # "restart_spawn"

\* C3: at most one supervised process is alive, it is the one behind the
\* handle, and the handle is the most recently spawned process.
C3_SingleHandle ==
    /\ Cardinality(alive) <= 1
    /\ alive \subseteq {ollama_process}
    /\ ollama_process = nspawned

\* C3 witness: a replacement has been spawned and is the live handle
C3_Witness ==
    /\ restarts >= 1
    /\ ollama_process \in alive
    /\ ollama_process > cycleHandle

\* C4: the supervised process is never blocked writing to a full pipe.
C4_NeverStalls ==
    ~stalled

\* C5: after a restart whose spawn succeeded, a later cycle is reported
\* healthy unless the new process exits (the endpoint answering 200 again
\* and again, the loop running on).
C5_LivenessRecovers ==
    [](pc = "settle" => <>(Healthy \/ PollExited(ollama_process)))

\* C6 as stated: a process that had exited when tick N probed is restarted
\* exactly once before the next probe, whatever the probe's outcome.
C6_RestartOnceAnyOutcome ==
    (pc = "sleep" /\ exitedAtTry) => spawnCalls = 1

\* C6 amended: when the try block of tick N raises and the process has
\* exited, the cycle calls Popen exactly once before the next probe; when
\* the try block does not raise, the cycle makes no exit check and no call.
C6_RestartOnceWhenRaised ==
    /\ (CycleReported /\ exc # "none" /\ exitedAtTry) => spawnCalls = 1
    /\ (CycleReported /\ exc # "none" /\ pollResult = "exited") => spawnCalls = 1
    /\ (CycleReported /\ exc = "none") => (spawnCalls = 0 /\ pollResult = "none")

\* C6 witness: the process was dead at the probe, the probe failed, and the
\* cycle ended with one spawn and a live replacement
C6_Witness ==
    /\ pc = "sleep"
    /\ exitedAtTry
    /\ exc = "connerr"
    /\ spawnCalls = 1
    /\ ollama_process \in alive

C8_HealthyIffSuccess ==
    CycleReported => (Healthy <=> resp \in Success2xx)

\* C9: after a failed probe the error is reported with its diagnostic and
\* the loop goes on to the next cycle.
C9_ProbeFailureNotFatal ==
    (resp \in Responses \ Success2xx /\ pc # "except")
        => (report = "ERROR" /\ exc = resp /\ pc # "crashed")

\* C10: a cycle whose probe was answered with a 2xx status makes no exit
\* check, spawns nothing and leaves the handle unchanged.
C10_SuccessOnlyReports ==
    resp \in Success2xx
        => (pollResult = "none" /\ spawnCalls = 0 /\ ollama_process = cycleHandle)

\* the current cycle replaced the handle
Restarted == resp # "none" /\ ollama_process # cycleHandle

C12_ProbeAfterSettle ==
    (pc = "probe" /\ resp # "none")
        => slept = (IF Restarted THEN 10 ELSE 300)

\* C12 amended: after a restart the loop sleeps the settle interval of 10
\* and then the full polling interval of 300, so the next probe is issued
\* 310 after the restart; without a restart it sleeps the full 300.
C12_ProbeAfterSettleAndPoll ==
    /\ (pc = "probe" /\ resp # "none")
           => slept = (IF Restarted THEN 310 ELSE 300)
    /\ (pc = "sleep" /\ Restarted) => slept = 10
    /\ (pc = "sleep" /\ ~Restarted) => slept = 0

\* C12 witness: the probe after a restart is about to be issued, 310 later
C12_Witness ==
    /\ pc = "probe"
    /\ Restarted
    /\ slept = 310
    /\ ollama_process \in alive

\* the script is past the readiness poll: model pull, tunnel, keep-alive loop
PastReadiness ==
    \/ pc \in {"setup", "probe", "except", "settle", "sleep"}
    \/ fatal \in {"setup", "restart_spawn"}
\* readiness probes issued so far
ReadyProbes == i + (IF server_ready THEN 1 ELSE 0)

\* C13 as stated: at most 45 readiness probes, the poll stops at the first
\* one answered with status 200, the later steps need such an answer, and
\* after 45 failures the script requests termination and exits without
\* tunnel or keep-alive loop.
C13_StopsAtFirst200 ==
    /\ ReadyProbes <= 45
    /\ pc \in {"ready_poll", "not_ready"} => ~seen200
    /\ PastReadiness => seen200
    /\ fatal = "not_ready"
           => (pc = "exited" /\ termRequested /\ ~tunnelOpen /\ resp = "none")

\* C13 amended: the poll stops at the first probe answered with status 200
\* and a body that parses (json.loads and data.get succeed); a 200 with
\* another body counts as a failed attempt.  The rest as stated.
C13_StopsAtFirstParsed200 ==
    /\ ReadyProbes <= 45
    /\ pc \in {"ready_poll", "not_ready"} => ~server_ready
    /\ pc = "not_ready" => i = 45
    /\ PastReadiness => (server_ready /\ seen200)
    /\ fatal = "not_ready"
           => (pc = "exited" /\ termRequested /\ ~tunnelOpen /\ resp = "none"
               /\ i = 45 /\ ~server_ready)

\* C13 witness: all 45 attempts failed, one of them a 200 whose body did
\* not parse, and the script ended with the termination request
C13_Witness ==
    /\ fatal = "not_ready"
    /\ i = 45
    /\ seen200
    /\ termRequested

\* C14: the readiness poll gives up within 45 time units, probe blocking
\* time and sleeps included, and the progress line after attempt n is
\* printed n time units into the poll.
C14_ReadyWithin45 ==
    /\ pc = "not_ready" => readyElapsed <= 45
    /\ (pc \in {"ready_poll", "not_ready"} /\ i > 0 /\ ProgressPrinted(i))
           => readyElapsed = i

====
